---- MODULE Spec2Model ----
(***************************************************************************)
(* x-rss: the feed-to-post pipeline of src/__main__.py (main, process_feed,*)
(* PostHistory, RSSFeedManager, XAIChat, TwitterBot) as a state machine.   *)
(* One process runs at a time; a run is one invocation of main().  The     *)
(* history file and the tweets on the platform survive between runs, the   *)
(* process memory does not.  Time is counted in hours.                     *)
(* Spec is the pipeline, SpecLive the pipeline of a process that is not    *)
(* killed, SpecStore a PostHistory object on its own, SpecBot the          *)
(* TwitterBot classes of src/__main__.py and src/twitter_bot.py with       *)
(* their callers.                                                          *)
(***************************************************************************)
EXTENDS Integers, Sequences, FiniteSets, TLC

VARIABLES
    now,              \* the wall clock, datetime.now(), in hours
    ticks,            \* how often the clock has advanced
    run,              \* number of invocations of main() started so far
    history_file,     \* posted_articles.json: absent, partial or a JSON object
    world,            \* the feed document each endpoint serves
    creds,            \* what Credentials.load() finds in this run
    rss_file,         \* the file "rss" as this run finds it
    pc,               \* position of the running process in main()/process_feed()
    posted_articles,  \* PostHistory.posted_articles (in memory)
    selected_feeds,   \* feeds returned by get_random_feeds in this run
    articles,         \* articles returned by fetch_latest_content
    idx,              \* position of the for-loop of process_feed in articles
    attempt,          \* attempt number of the tenacity-wrapped call in progress
    tweet_text,       \* result of chat_client.chat for the current article
    status_code,      \* status of the last response of the platform in this run
    platform,         \* hash -> number of tweets the platform accepted for it
    recorded,         \* hash -> time and run of the last completed add_posted
    crash_window,     \* hashes posted by a run that crashed before add_posted completed
    pruned,           \* hashes cleanup_old_entries has removed from the history
    log,              \* what this run did (observations, not program state)
    pub,              \* the TwitterBot object, its callers and the event loop
    hist,             \* the coroutines that call one PostHistory object
    gen,              \* a ThreadGenerator at work on a response of the model
    rss_manager       \* an RSSFeedManager and the get_random_feeds calls made on it

vars == << now, ticks, run, history_file, world, creds, rss_file, pc,
           posted_articles, selected_feeds, articles, idx, attempt, tweet_text,
           status_code, platform, recorded, crash_window, pruned, log, pub,
           hist, gen, rss_manager >>

----------------------------------------------------------------------------
(* Bounds of the model *)

MaxRuns == 3
MaxTicks == 2

(* Clock advances that make the freshness and retention boundaries occur. *)
Deltas == {1, 719}

(* Publication dates a feed entry may carry; NoDate is an entry without    *)
(* published_parsed and updated_parsed.                                    *)
NoDate == << >>
EntryDates == { << 0 - 24 >>, << 0 - 23 >>, NoDate }

----------------------------------------------------------------------------
(* CONFIG: the defaults of load_config *)

max_retries == 3
history_retention_days == 30
article_freshness_hours == 24
max_articles_per_feed == 5
max_feeds_per_run == 25

(* RSSFeedManager.feeds as _load_feeds returns it *)
feeds == << "f1", "f2" >>

----------------------------------------------------------------------------
(* Helpers *)

EmptyMap == [k \in {} |-> 0]
Range(s) == { s[i] : i \in DOMAIN s }
Min(a, b) == IF a < b THEN a ELSE b

timedelta_hours(h) == h
timedelta_days(d) == 24 * d

(* Variant: an article published exactly `hours` ago still counts as recent *)
is_recent_inclusive(article, hours, t) ==
    t - article.published_date <= timedelta_hours(hours)

(* Article.is_recent, evaluated when the clock shows t *)
is_recent(article, hours, t) ==
    t - article.published_date < timedelta_hours(hours)

(* Article.get_hash: md5 of url followed by title; md5 taken as injective *)
get_hash(article) == article.url \o article.title

(* Variant: the date alone is written, the time of day is lost *)
isoformat_date_only(t) == [iso |-> t - (t % 24)]

(* datetime.isoformat / datetime.fromisoformat *)
isoformat(t) == [iso |-> t]
fromisoformat(s) == s.iso

(* The three states of the history file *)
AbsentFile == [kind |-> "absent", map |-> EmptyMap]
PartialFile == [kind |-> "partial", map |-> EmptyMap]
JsonFile(m) == [kind |-> "json", map |-> m]

(* Variant: a file that is not JSON is taken as an empty history *)
LoadRaises_never(f) == FALSE

(* Variant: the file is not read *)
_load_history_empty(f) == EmptyMap

(* PostHistory._load_history; json.load raises on a file that is not JSON *)
LoadRaises(f) == f.kind = "partial"
_load_history(f) ==
    IF f.kind = "json"
    THEN [k \in DOMAIN f.map |-> fromisoformat(f.map[k])]
    ELSE EmptyMap

(* PostHistory._save_history: what json.dump writes *)
_save_history(m) == JsonFile([k \in DOMAIN m |-> isoformat(m[k])])

(* PostHistory.is_posted *)
is_posted(m, article) == get_hash(article) \in DOMAIN m

(* Variant: the entry is stored under the url instead of the hash *)
add_posted_by_url(m, article, t) ==
    [k \in DOMAIN m \cup {article.url} |->
        IF k = article.url THEN t ELSE m[k]]

(* PostHistory.add_posted: the assignment to the map *)
add_posted(m, article, t) ==
    [k \in DOMAIN m \cup {get_hash(article)} |->
        IF k = get_hash(article) THEN t ELSE m[k]]

(* Variant: an entry whose timestamp equals the cutoff is kept *)
cleanup_old_entries_inclusive(m, days, t) ==
    LET cutoff == t - timedelta_days(days)
        keep == { k \in DOMAIN m : m[k] >= cutoff }
    IN  [k \in keep |-> m[k]]

(* PostHistory.cleanup_old_entries: the dict comprehension *)
cleanup_old_entries(m, days, t) ==
    LET cutoff == t - timedelta_days(days)
        keep == { k \in DOMAIN m : m[k] > cutoff }
    IN  [k \in keep |-> m[k]]

(* Variant: count is ignored and every feed is drawn *)
get_random_feeds_all(count) ==
    { s \in [1..Len(feeds) -> Range(feeds)] :
        \A i, j \in 1..Len(feeds) : i # j => s[i] # s[j] }

(* RSSFeedManager.get_random_feeds: the outcomes of random.sample *)
get_random_feeds(count) ==
    LET k == Min(count, Len(feeds))
    IN  { s \in [1..k -> Range(feeds)] :
            \A i, j \in 1..k : i # j => s[i] # s[j] }

(* The text of a feed entry is a sequence of tokens separated by           *)
(* whitespace; a token is a word or an HTML tag                            *)
Tags == { "<p>", "</p>" }
Brief == << "<p>", "w", "</p>" >>

(* RSSFeedManager._clean_text: the tags are removed, runs of whitespace    *)
(* become one space, the ends are stripped                                 *)
_clean_text(text) == SelectSeq(text, LAMBDA token : token \notin Tags)

(* The Article fetch_latest_content builds from one feed entry *)
MakeArticle(entry, feed_url, t) ==
    [ title |-> entry.title,
      content |-> _clean_text(entry.summary),
      url |-> entry.link,
      published_date |-> IF entry.published = NoDate THEN t
                        ELSE entry.published[1],
      feed_id |-> feed_url ]

(* fetch_latest_content: the articles of the first max_articles_per_feed entries *)
fetch_latest_content(doc, feed_url, t) ==
    [ i \in 1..Min(Len(doc), max_articles_per_feed) |->
        MakeArticle(doc[i], feed_url, t) ]

----------------------------------------------------------------------------
(* The feed documents *)

Entry(link, title, published) ==
    [link |-> link, title |-> title, published |-> published,
     summary |-> Brief]

Worlds ==
    { [f \in Range(feeds) |->
         IF f = "f1" THEN << Entry("u1", "t1", d1), Entry("u2", "t2", d2) >>
                     ELSE << Entry("u3", "t3", << 0 - 23 >>) >>] :
      d1 \in EntryDates \ {<< 0 - 24 >>}, d2 \in EntryDates \ {NoDate} }

Hashes == { "u1t1", "u2t2", "u3t3" }

(* Files a first run may find: none, one left truncated by a crash, and one  *)
(* in which an earlier run has recorded its post of the first entry of f1    *)
EarlierPost == "u1t1"
InitialFiles ==
    { AbsentFile, PartialFile,
      JsonFile([k \in {EarlierPost} |-> isoformat(0 - 1)]) }

----------------------------------------------------------------------------
(* Observations of one run *)

EmptyLog ==
    [ posts |-> 0,            \* requests to the platform
      composed |-> {},        \* hashes handed to the composer
      published |-> {},       \* hashes the platform accepted
      after_success |-> 0,    \* network calls made after a successful post
      examined_at |-> 0,      \* clock when the current article was examined
      cleaned_at |-> 0,       \* clock when cleanup_old_entries ran
      base |-> EmptyMap,      \* the history as cleanup_old_entries left it
      tried |-> {},           \* endpoints handed to process_feed
      net |-> FALSE,          \* a request went out to a feed, the model or the platform
      cleanups |-> 0,         \* calls of cleanup_old_entries
      flushes |-> 0,          \* of which have written the file to its end
      error |-> "",           \* the call whose exception process_feed caught
      messages |-> "" ]       \* the system message of the last prompt built

NetCall(l) ==
    IF l.published # {}
    THEN [l EXCEPT !.net = TRUE, !.after_success = @ + 1]
    ELSE [l EXCEPT !.net = TRUE]

Running == { "load", "cleanup", "cleanup_flush", "select", "fetch",
             "examine", "compose", "publish", "record", "record_flush" }
Terminal == { "idle", "done_success", "done_exhausted", "aborted", "crashed" }

(* Positions of a caller that uses a PostHistory object on its own *)
StoreStates == { "store_new", "store" }

current == articles[idx]

(* The file "rss": not there, there without a line that is an endpoint, or  *)
(* there with the endpoints of feeds                                       *)
RssFiles == { "missing", "empty", "feeds" }

(* No TwitterBot of src/twitter_bot.py exists in a run of main() *)
NoPublisher == << >>

(* main() is the only caller of its PostHistory, and no ThreadGenerator is *)
(* constructed                                                             *)
NoCallers == << >>
NoGenerator == << >>
NoManager == << >>

----------------------------------------------------------------------------
Init ==
    /\ now = 0
    /\ ticks = 0
    /\ run = 0
    /\ history_file \in InitialFiles
    /\ world \in Worlds
    /\ creds = TRUE
    /\ rss_file = "feeds"
    /\ pub = NoPublisher
    /\ hist = NoCallers
    /\ gen = NoGenerator
    /\ rss_manager = NoManager
    /\ pc = "idle"
    /\ posted_articles = EmptyMap
    /\ selected_feeds = << >>
    /\ articles = << >>
    /\ idx = 0
    /\ attempt = 0
    /\ tweet_text = ""
    /\ status_code = 0
    /\ platform = [h \in Hashes |->
                      IF h \in DOMAIN history_file.map THEN 1 ELSE 0]
    /\ recorded = [h \in DOMAIN history_file.map |->
                      [at |-> fromisoformat(history_file.map[h]), run |-> 0]]
    /\ crash_window = {}
    /\ pruned = {}
    /\ log = EmptyLog

(* What survives a run: only the clock, the file, the feeds and the platform *)
durable == << now, ticks, run, history_file, world, platform, recorded,
              crash_window, pruned >>
memory == << posted_articles, selected_feeds, articles, idx, attempt,
             tweet_text, status_code >>
(* What no step of a run touches: the environment of the process and the   *)
(* TwitterBot of src/twitter_bot.py, which main() does not construct       *)
given == << creds, rss_file, pub, hist, gen, rss_manager >>

(* Responses of the language model that Python takes as true / as false *)
NoneText == "None"
Replies == { "tweet", "", NoneText }
Truthy(text) == text # "" /\ text # NoneText

(* Status codes of the platform: created, rate limited, rejected *)
StatusCodes == { 201, 429, 403 }

----------------------------------------------------------------------------
(* Variant: validate() is not called, the run goes on without credentials *)
Start_no_validate ==
    /\ pc \in Terminal
    /\ run < MaxRuns
    /\ run' = run + 1
    /\ creds' \in BOOLEAN
    /\ rss_file' \in IF creds' THEN RssFiles ELSE {rss_file}
    /\ pc' = "load"
    /\ posted_articles' = EmptyMap
    /\ selected_feeds' = << >>
    /\ articles' = << >>
    /\ idx' = 0
    /\ attempt' = 0
    /\ tweet_text' = ""
    /\ status_code' = 0
    /\ log' = EmptyLog
    /\ UNCHANGED << now, ticks, history_file, world, platform, recorded,
                    crash_window, pruned, pub, hist, gen,
                    rss_manager >>

(* main(): Credentials.load() and validate() of a newly started process *)
Start ==
    /\ pc \in Terminal
    /\ run < MaxRuns
    /\ run' = run + 1
    /\ creds' \in BOOLEAN
    /\ rss_file' \in IF creds' THEN RssFiles ELSE {rss_file}
    /\ pc' = IF creds' THEN "load" ELSE "aborted"
    /\ posted_articles' = EmptyMap
    /\ selected_feeds' = << >>
    /\ articles' = << >>
    /\ idx' = 0
    /\ attempt' = 0
    /\ tweet_text' = ""
    /\ status_code' = 0
    /\ log' = EmptyLog
    /\ UNCHANGED << now, ticks, history_file, world, platform, recorded,
                    crash_window, pruned, pub, hist, gen,
                    rss_manager >>

(* Variant: main() does not call cleanup_old_entries *)
LoadHistory_skip_cleanup ==
    /\ pc = "load"
    /\ IF LoadRaises(history_file)
       THEN /\ pc' = "aborted"
            /\ UNCHANGED posted_articles
       ELSE /\ pc' = IF rss_file = "missing" THEN "aborted" ELSE "select"
            /\ posted_articles' = _load_history(history_file)
    /\ UNCHANGED << durable, given, selected_feeds, articles, idx, attempt,
                    tweet_text, status_code, log >>

(* main(): PostHistory(), RSSFeedManager() and the other constructors;      *)
(* _load_feeds raises FileNotFoundError when the file "rss" is not there   *)
LoadHistory ==
    /\ pc = "load"
    /\ IF LoadRaises(history_file)
       THEN /\ pc' = "aborted"
            /\ UNCHANGED posted_articles
       ELSE /\ pc' = IF rss_file = "missing" THEN "aborted" ELSE "cleanup"
            /\ posted_articles' = _load_history(history_file)
    /\ UNCHANGED << durable, given, selected_feeds, articles, idx, attempt,
                    tweet_text, status_code, log >>

(* post_history.cleanup_old_entries() up to open(history_file, 'w') *)
Cleanup ==
    /\ pc = "cleanup"
    /\ posted_articles' =
          cleanup_old_entries(posted_articles, history_retention_days, now)
    /\ pruned' = pruned \cup (DOMAIN posted_articles \ DOMAIN posted_articles')
    /\ history_file' = PartialFile
    /\ log' = [log EXCEPT !.cleaned_at = now, !.base = posted_articles',
                          !.cleanups = @ + 1]
    /\ pc' = "cleanup_flush"
    /\ UNCHANGED << now, ticks, run, world, given, platform, recorded,
                    crash_window, selected_feeds, articles, idx, attempt,
                    tweet_text, status_code >>

(* json.dump and close of _save_history, called by cleanup_old_entries *)
CleanupFlush ==
    /\ pc = "cleanup_flush"
    /\ history_file' = _save_history(posted_articles)
    /\ log' = [log EXCEPT !.flushes = @ + 1]
    /\ pc' = "select"
    /\ UNCHANGED << now, ticks, run, world, given, platform, recorded,
                    crash_window, pruned, memory >>

(* main(): feeds = get_random_feeds(count=1); process_feed(feeds[0], ...);  *)
(* get_random_feeds raises ValueError when _load_feeds found no endpoint   *)
SelectFeed ==
    /\ pc = "select"
    /\ IF rss_file = "empty"
       THEN /\ pc' = "aborted"
            /\ UNCHANGED << selected_feeds, attempt, log >>
       ELSE /\ \E s \in get_random_feeds(1) :
                  /\ selected_feeds' = s
                  /\ log' = [log EXCEPT !.tried = @ \cup {s[1]}]
            /\ attempt' = 1
            /\ pc' = "fetch"
    /\ UNCHANGED << durable, given, posted_articles, articles, idx,
                    tweet_text, status_code >>

(* Variant: the for-loop of process_feed starts at the second article *)
FetchOk_from_second ==
    /\ pc = "fetch"
    /\ articles' = fetch_latest_content(world[selected_feeds[1]],
                                        selected_feeds[1], now)
    /\ idx' = 2
    /\ log' = NetCall(log)
    /\ pc' = "examine"
    /\ UNCHANGED << durable, given, posted_articles, selected_feeds, attempt,
                    tweet_text, status_code >>

(* fetch_latest_content: an attempt that returns the articles *)
FetchOk ==
    /\ pc = "fetch"
    /\ articles' = fetch_latest_content(world[selected_feeds[1]],
                                        selected_feeds[1], now)
    /\ idx' = 1
    /\ log' = NetCall(log)
    /\ pc' = "examine"
    /\ UNCHANGED << durable, given, posted_articles, selected_feeds, attempt,
                    tweet_text, status_code >>

(* Variant: the attempts are not limited, the count starts over *)
FetchFail_unlimited ==
    /\ pc = "fetch"
    /\ attempt' = (attempt % max_retries) + 1
    /\ log' = NetCall(log)
    /\ pc' = "fetch"
    /\ UNCHANGED << durable, given, posted_articles, selected_feeds, articles,
                    idx, tweet_text, status_code >>

(* fetch_latest_content: an attempt that raises; tenacity tries again until *)
(* stop_after_attempt(max_retries), then process_feed returns False         *)
FetchFail ==
    /\ pc = "fetch"
    /\ IF attempt < max_retries
       THEN /\ attempt' = attempt + 1
            /\ log' = NetCall(log)
            /\ pc' = "fetch"
       ELSE /\ attempt' = attempt
            /\ log' = [NetCall(log) EXCEPT !.error = "fetch"]
            /\ pc' = "done_exhausted"
    /\ UNCHANGED << durable, given, posted_articles, selected_feeds, articles,
                    idx, tweet_text, status_code >>

(* Variant: the history is not consulted *)
Eligible_recent_only(article, t) ==
    is_recent(article, article_freshness_hours, t)

(* process_feed: the condition of the if inside the for-loop *)
Eligible(article, t) ==
    /\ is_recent(article, article_freshness_hours, t)
    /\ ~ is_posted(posted_articles, article)

(* process_feed: the system message of the one prompt it builds           *)
(* ("... creates engaging tweets. Create a tweet that captures ...")       *)
TweetPrompt == "tweet"

(* process_feed: one turn of the for-loop up to the call of chat *)
Examine ==
    /\ pc = "examine"
    /\ IF idx > Len(articles)
       THEN /\ pc' = "done_exhausted"
            /\ UNCHANGED << idx, attempt, log >>
       ELSE IF Eligible(current, now)
       THEN /\ pc' = "compose"
            /\ attempt' = 1
            /\ log' = [log EXCEPT !.composed = @ \cup {get_hash(current)},
                                  !.examined_at = now,
                                  !.messages = TweetPrompt]
            /\ UNCHANGED idx
       ELSE /\ pc' = "examine"
            /\ idx' = idx + 1
            /\ UNCHANGED << attempt, log >>
    /\ UNCHANGED << durable, given, posted_articles, selected_feeds, articles,
                    tweet_text, status_code >>

(* XAIChat.chat: an attempt that returns the content of the response *)
ChatOk ==
    /\ pc = "compose"
    /\ \E text \in Replies :
          /\ tweet_text' = text
          /\ IF Truthy(text)
             THEN /\ pc' = "publish"
                  /\ UNCHANGED idx
             ELSE /\ pc' = "examine"
                  /\ idx' = idx + 1
    /\ log' = NetCall(log)
    /\ UNCHANGED << durable, given, posted_articles, selected_feeds, articles,
                    attempt, status_code >>

(* XAIChat.chat: an attempt that raises; after max_retries attempts tenacity *)
(* raises RetryError, which the except of process_feed turns into False      *)
ChatFail ==
    /\ pc = "compose"
    /\ IF attempt < max_retries
       THEN /\ attempt' = attempt + 1
            /\ log' = NetCall(log)
            /\ pc' = "compose"
       ELSE /\ attempt' = attempt
            /\ log' = [NetCall(log) EXCEPT !.error = "chat"]
            /\ pc' = "done_exhausted"
    /\ UNCHANGED << durable, given, posted_articles, selected_feeds, articles,
                    idx, tweet_text, status_code >>

(* Variant: the status of the response is not looked at *)
PostTweet_any_status ==
    /\ pc = "publish"
    /\ \E status \in StatusCodes :
          /\ status_code' = status
          /\ platform' = IF status = 201
                         THEN [platform EXCEPT ![get_hash(current)] = @ + 1]
                         ELSE platform
          /\ log' = [NetCall(log) EXCEPT
                        !.posts = @ + 1,
                        !.published = IF status = 201
                                      THEN @ \cup {get_hash(current)} ELSE @]
    /\ pc' = "record"
    /\ UNCHANGED << now, ticks, run, history_file, world, recorded,
                    crash_window, pruned, given, posted_articles,
                    selected_feeds, articles, idx, attempt, tweet_text >>

(* TwitterBot.post_tweet: 201 returns True, any other status raises, and    *)
(* the except of process_feed turns the exception into False                *)
PostTweet ==
    /\ pc = "publish"
    /\ \E status \in StatusCodes :
          /\ status_code' = status
          /\ IF status = 201
             THEN /\ platform' = [platform EXCEPT ![get_hash(current)] = @ + 1]
                  /\ log' = [NetCall(log) EXCEPT
                                !.posts = @ + 1,
                                !.published = @ \cup {get_hash(current)}]
                  /\ pc' = "record"
             ELSE /\ platform' = platform
                  /\ log' = [NetCall(log) EXCEPT !.posts = @ + 1,
                                                  !.error = "post"]
                  /\ pc' = "done_exhausted"
    /\ UNCHANGED << now, ticks, run, history_file, world, recorded,
                    crash_window, pruned, given, posted_articles,
                    selected_feeds, articles, idx, attempt, tweet_text >>

(* post_history.add_posted(article) up to open(history_file, 'w') *)
AddPosted ==
    /\ pc = "record"
    /\ posted_articles' = add_posted(posted_articles, current, now)
    /\ history_file' = PartialFile
    /\ pc' = "record_flush"
    /\ UNCHANGED << now, ticks, run, world, given, platform, recorded,
                    crash_window, pruned, selected_feeds, articles, idx,
                    attempt, tweet_text, status_code, log >>

(* Variant: process_feed does not return after add_posted and the loop     *)
(* goes on with the next article                                           *)
AddPostedFlush_no_return ==
    /\ pc = "record_flush"
    /\ history_file' = _save_history(posted_articles)
    /\ recorded' = [h \in DOMAIN recorded \cup {get_hash(current)} |->
                       IF h = get_hash(current)
                       THEN [at |-> now, run |-> run]
                       ELSE recorded[h]]
    /\ pc' = "examine"
    /\ idx' = idx + 1
    /\ UNCHANGED << now, ticks, run, world, given, platform, crash_window,
                    pruned, posted_articles, selected_feeds, articles,
                    attempt, tweet_text, status_code, log >>

(* json.dump and close of _save_history, called by add_posted; then        *)
(* process_feed returns True                                               *)
AddPostedFlush ==
    /\ pc = "record_flush"
    /\ history_file' = _save_history(posted_articles)
    /\ recorded' = [h \in DOMAIN recorded \cup {get_hash(current)} |->
                       IF h = get_hash(current)
                       THEN [at |-> now, run |-> run]
                       ELSE recorded[h]]
    /\ pc' = "done_success"
    /\ UNCHANGED << now, ticks, run, world, given, platform, crash_window,
                    pruned, memory, log >>

(* The process dies; a file opened for writing and not yet closed stays     *)
(* truncated                                                               *)
Crash ==
    /\ pc \in Running
    /\ pc' = "crashed"
    /\ crash_window' = IF pc \in {"record", "record_flush"}
                       THEN crash_window \cup {get_hash(current)}
                       ELSE crash_window
    /\ posted_articles' = EmptyMap
    /\ selected_feeds' = << >>
    /\ articles' = << >>
    /\ idx' = 0
    /\ attempt' = 0
    /\ tweet_text' = ""
    /\ status_code' = 0
    /\ log' = EmptyLog
    /\ UNCHANGED << now, ticks, run, history_file, world, given, platform,
                    recorded, pruned >>

(* Time passes *)
Tick ==
    /\ ticks < MaxTicks
    /\ pc \in Terminal \cup {"compose"} \cup StoreStates
    /\ \E d \in Deltas : now' = now + d
    /\ ticks' = ticks + 1
    /\ UNCHANGED << run, history_file, world, given, pc, platform, recorded,
                    crash_window, pruned, memory, log >>

Next ==
    \/ Start
    \/ LoadHistory
    \/ Cleanup
    \/ CleanupFlush
    \/ SelectFeed
    \/ FetchOk
    \/ FetchFail
    \/ Examine
    \/ ChatOk
    \/ ChatFail
    \/ PostTweet
    \/ AddPosted
    \/ AddPostedFlush
    \/ Crash
    \/ Tick

Spec == Init /\ [][Next]_vars

----------------------------------------------------------------------------
(* A process that is not killed: main() is one task of the event loop, and *)
(* every statement it reaches and every call it awaits comes to an end     *)
(* (a result or an exception), so the run always takes its next step.      *)

RunStep ==
    \/ LoadHistory
    \/ Cleanup
    \/ CleanupFlush
    \/ SelectFeed
    \/ FetchOk
    \/ FetchFail
    \/ Examine
    \/ ChatOk
    \/ ChatFail
    \/ PostTweet
    \/ AddPosted
    \/ AddPostedFlush

NextLive ==
    \/ Start
    \/ RunStep
    \/ Tick

SpecLive == Init /\ [][NextLive]_vars /\ WF_vars(RunStep)

----------------------------------------------------------------------------
(* Runs of main() on feeds whose first entry carries a text of some length *)

Words(n) == [i \in 1..n |-> "w"]

(* texts of 100 and of 101 words, short texts with and without the word    *)
(* "Study", a text with tags around                                        *)
PathContents ==
    { Words(100), Words(101), << "A", "Study" >> \o Words(2),
      << "<p>" >> \o Words(3) \o << "</p>" >> }

WorldsPath ==
    { [f \in Range(feeds) |->
         IF f = "f1"
         THEN << [Entry("u1", "t1", << 0 - 23 >>) EXCEPT !.summary = c],
                 Entry("u2", "t2", << 0 - 23 >>) >>
         ELSE << Entry("u3", "t3", << 0 - 23 >>) >>] :
      c \in PathContents }

InitPath ==
    /\ now = 0
    /\ ticks = 0
    /\ run = 0
    /\ history_file = AbsentFile
    /\ world \in WorldsPath
    /\ creds = TRUE
    /\ rss_file = "feeds"
    /\ pub = NoPublisher
    /\ hist = NoCallers
    /\ gen = NoGenerator
    /\ rss_manager = NoManager
    /\ pc = "idle"
    /\ posted_articles = EmptyMap
    /\ selected_feeds = << >>
    /\ articles = << >>
    /\ idx = 0
    /\ attempt = 0
    /\ tweet_text = ""
    /\ status_code = 0
    /\ platform = [h \in Hashes |-> 0]
    /\ recorded = EmptyMap
    /\ crash_window = {}
    /\ pruned = {}
    /\ log = EmptyLog

NextPath ==
    \/ Start
    \/ RunStep

SpecPath == InitPath /\ [][NextPath]_vars

----------------------------------------------------------------------------
(* PostHistory on its own: one object, constructed over a file and then    *)
(* called with add_posted and cleanup_old_entries in any order; each call  *)
(* runs to its end, _save_history included.                                *)

StoreArticles ==
    UNION { { MakeArticle(world[f][i], f, now) : i \in DOMAIN world[f] } :
            f \in Range(feeds) }

(* PostHistory(): the constructor *)
StoreNew ==
    /\ pc \in StoreStates
    /\ ~ LoadRaises(history_file)
    /\ posted_articles' = _load_history(history_file)
    /\ pc' = "store_new"
    /\ UNCHANGED << durable, given, selected_feeds, articles, idx, attempt,
                    tweet_text, status_code, log >>

(* await post_history.add_posted(article) *)
StoreAddPosted ==
    /\ pc \in StoreStates
    /\ \E article \in StoreArticles :
          /\ posted_articles' = add_posted(posted_articles, article, now)
          /\ recorded' = [h \in DOMAIN recorded \cup {get_hash(article)} |->
                             IF h = get_hash(article)
                             THEN [at |-> now, run |-> run]
                             ELSE recorded[h]]
    /\ history_file' = _save_history(posted_articles')
    /\ pc' = "store"
    /\ UNCHANGED << now, ticks, run, world, given, platform, crash_window,
                    pruned, selected_feeds, articles, idx, attempt,
                    tweet_text, status_code, log >>

(* await post_history.cleanup_old_entries(days) *)
StoreCleanup ==
    /\ pc \in StoreStates
    /\ posted_articles' =
          cleanup_old_entries(posted_articles, history_retention_days, now)
    /\ pruned' = pruned \cup (DOMAIN posted_articles \ DOMAIN posted_articles')
    /\ history_file' = _save_history(posted_articles')
    /\ log' = [log EXCEPT !.cleaned_at = now, !.cleanups = 1]
    /\ pc' = "store"
    /\ UNCHANGED << now, ticks, run, world, given, platform, recorded,
                    crash_window, selected_feeds, articles, idx, attempt,
                    tweet_text, status_code >>

InitStore ==
    /\ now = 0
    /\ ticks = 0
    /\ run = 0
    /\ history_file \in InitialFiles \ {PartialFile}
    /\ world \in Worlds
    /\ creds = TRUE
    /\ rss_file = "feeds"
    /\ pub = NoPublisher
    /\ hist = NoCallers
    /\ gen = NoGenerator
    /\ rss_manager = NoManager
    /\ pc = "store_new"
    /\ posted_articles = _load_history(history_file)
    /\ selected_feeds = << >>
    /\ articles = << >>
    /\ idx = 0
    /\ attempt = 0
    /\ tweet_text = ""
    /\ status_code = 0
    /\ platform = [h \in Hashes |-> 0]
    /\ recorded = EmptyMap
    /\ crash_window = {}
    /\ pruned = {}
    /\ log = EmptyLog

NextStore ==
    \/ StoreNew
    \/ StoreAddPosted
    \/ StoreCleanup
    \/ Tick

SpecStore == InitStore /\ [][NextStore]_vars

----------------------------------------------------------------------------
(* The Publisher: a TwitterBot object and the coroutines that call it.     *)
(* pub.kind tells which class the process has constructed: "main" is the   *)
(* TwitterBot of src/__main__.py (post_tweet under an asyncio.Lock, the    *)
(* request in an executor thread), "modular" the one of src/twitter_bot.py *)
(* (_exponential_backoff_retry, post_tweet, post_thread; no lock).  The    *)
(* coroutines are tasks of one event loop: a task runs until it awaits     *)
(* something that suspends it, and pub.loop is the task that is running.   *)

MaxCallers == 2
MaxParts == 2

Callers == 1 .. MaxCallers

(* _exponential_backoff_retry: the default of max_retries, the first delay *)
backoff_max_retries == 5
retry_delay_start == 10

(* Variant: the module also imports CONFIG *)
module_globals_with_config ==
    { "OAuth1Session", "logging", "asyncio", "List", "dataclass", "time",
      "logger", "ThreadPart", "TwitterBot", "CONFIG" }

(* The names bound in the module twitter_bot when post_thread runs: its    *)
(* imports and its own definitions                                         *)
module_globals ==
    { "OAuth1Session", "logging", "asyncio", "List", "dataclass", "time",
      "logger", "ThreadPart", "TwitterBot" }

(* previous_tweet_id = None *)
NoId == 0

(* TwitterBot.max_tweet_length of __main__, the default max_tweet_length   *)
(* of ThreadGenerator                                                      *)
bot_max_tweet_length == 2500
default_max_tweet_length == 280

(* len(tweet_text) of the texts a caller hands to post_tweet: at the limit *)
(* and one character above it                                              *)
TextLengths == { bot_max_tweet_length, bot_max_tweet_length + 1 }

IdleTask ==
    [ pc |-> "idle",             \* idle, wait_lock, in_flight, backoff, delay, done
      op |-> "",                 \* post_tweet or post_thread
      parts |-> 0,               \* len(thread_parts); 1 for a single tweet
      part |-> 0,                \* the unit the for-loop of post_thread is at
      text |-> 0,                \* len() of the text of the unit
      attempt |-> 0,             \* iterations of the retry loop for this unit
      retry_delay |-> 0,
      delays |-> << >>,          \* arguments of time.sleep for this unit
      statuses |-> << >>,        \* status codes received for this unit
      previous_tweet_id |-> NoId,
      requests |-> << >>,        \* what the call has sent to the platform
      waited |-> FALSE,          \* the call found the lock taken
      result |-> "none" ]        \* "true", "false", or "raised"

(* Variant: the delay grows by its first value instead of doubling *)
NextDelay_linear(d) == d + retry_delay_start

(* retry_delay *= 2 *)
NextDelay(d) == d * 2

(* Variant: every status other than 201 is retried *)
Retryable_any(status) == status # 201

(* elif response.status_code == 429 *)
Retryable(status) == status = 429

(* the start of _exponential_backoff_retry for unit u *)
StartUnit(t, u) ==
    [t EXCEPT !.pc = "backoff", !.part = u, !.attempt = 0,
              !.retry_delay = retry_delay_start, !.delays = << >>,
              !.statuses = << >>]

(* return of the coroutine *)
Return(t, value) == [t EXCEPT !.pc = "done", !.result = value]

(* the request of the lambda: the text of unit t.part and, if                *)
(* previous_tweet_id is set, the reply reference                           *)
Request(t, status, id) ==
    [ part |-> t.part, length |-> t.text, reply |-> t.previous_tweet_id,
      status |-> status, id |-> id ]

(* Variant: a unit that failed is passed over and the loop goes on *)
AfterFailedUnit_continue(t) ==
    IF t.op = "post_thread" /\ t.part < t.parts
    THEN StartUnit(t, t.part + 1)
    ELSE Return(t, "false")

(* _exponential_backoff_retry returned None: post_tweet returns False      *)
(* (line 45), post_thread returns False (lines 67-68)                      *)
AfterFailedUnit(t) == Return(t, "false")

(* post_thread after a unit was created: previous_tweet_id is set, then    *)
(* await asyncio.sleep(CONFIG["thread_delay_seconds"]); the name CONFIG is *)
(* looked up before sleep is called, and a NameError goes to the except of *)
(* line 79, which returns False.  post_tweet returns True.                 *)
AfterCreatedUnit(t, id) ==
    IF t.op = "post_tweet"
    THEN Return(t, "true")
    ELSE IF "CONFIG" \in module_globals
    THEN [t EXCEPT !.pc = "delay", !.previous_tweet_id = id]
    ELSE Return([t EXCEPT !.previous_tweet_id = id], "false")

(* one iteration of the for-loop of _exponential_backoff_retry *)
Iteration(t, status, id) ==
    LET sent == [t EXCEPT !.attempt = @ + 1,
                          !.statuses = Append(@, status),
                          !.requests = Append(@, Request(t, status, id))]
    IN  IF status = 201
        THEN AfterCreatedUnit(sent, id)
        ELSE IF Retryable(status)
        THEN LET slept == [sent EXCEPT !.delays = Append(@, sent.retry_delay),
                                       !.retry_delay = NextDelay(@)]
             IN  IF slept.attempt < backoff_max_retries
                 THEN slept
                 ELSE AfterFailedUnit(slept)
        ELSE AfterFailedUnit(sent)

(* the task that holds the event loop after a step of task c *)
Holder(t, c) == IF t.pc = "backoff" THEN c ELSE 0

pipeline == << now, ticks, run, history_file, world, creds, rss_file, pc,
               posted_articles, selected_feeds, articles, idx, attempt,
               tweet_text, status_code, platform, recorded, crash_window,
               pruned, log, hist, gen, rss_manager >>

(* twitter_bot.TwitterBot.post_tweet is called: the coroutine starts when  *)
(* the event loop is free                                                  *)
BotPostTweet(c) ==
    /\ pub.kind = "modular"
    /\ pub.loop = 0
    /\ pub.task[c].pc = "idle"
    /\ \E length \in TextLengths :
          pub' = [pub EXCEPT
                     !.loop = c,
                     !.task[c] = StartUnit([@ EXCEPT !.op = "post_tweet",
                                                     !.parts = 1,
                                                     !.text = length], 1)]
    /\ UNCHANGED pipeline

(* twitter_bot.TwitterBot.post_thread is called with n thread_parts; with  *)
(* none the for-loop is empty and the call returns True                    *)
BotPostThread(c) ==
    /\ pub.kind = "modular"
    /\ pub.loop = 0
    /\ pub.task[c].pc = "idle"
    /\ \E n \in 0 .. MaxParts :
          LET t == [pub.task[c] EXCEPT !.op = "post_thread", !.parts = n,
                                       !.text = default_max_tweet_length]
              started == IF n = 0 THEN Return(t, "true") ELSE StartUnit(t, 1)
          IN  pub' = [pub EXCEPT !.loop = Holder(started, c),
                                 !.task[c] = started]
    /\ UNCHANGED pipeline

(* the running task makes its next request and handles the response; a     *)
(* task suspended in asyncio.sleep resumes with the next unit, or returns  *)
(* True when the for-loop of post_thread is at its end                     *)
BackoffAttempt(c) ==
    /\ pub.kind = "modular"
    /\ \/ pub.task[c].pc = "backoff" /\ pub.loop = c
       \/ pub.task[c].pc = "delay" /\ pub.loop = 0
    /\ LET t == pub.task[c]
       IN  IF t.pc = "delay" /\ t.part = t.parts
           THEN pub' = [pub EXCEPT !.loop = 0, !.task[c] = Return(t, "true")]
           ELSE \E status \in StatusCodes :
                   LET unit == IF t.pc = "delay"
                               THEN StartUnit(t, t.part + 1) ELSE t
                       id == IF status = 201 THEN pub.next_id ELSE NoId
                       after == Iteration(unit, status, id)
                   IN  pub' = [pub EXCEPT
                                  !.loop = Holder(after, c),
                                  !.next_id = IF status = 201
                                              THEN @ + 1 ELSE @,
                                  !.live = IF status = 201
                                           THEN @ \cup {id} ELSE @,
                                  !.task[c] = after]
    /\ UNCHANGED pipeline

(* the request post_tweet of __main__ hands to the executor *)
Submit(t) ==
    [t EXCEPT !.pc = "in_flight", !.op = "post_tweet", !.parts = 1,
              !.part = 1]

(* Variant: post_tweet does not take the lock *)
LockedPostTweet_no_lock(c) ==
    /\ pub.kind = "main"
    /\ pub.task[c].pc = "idle"
    /\ \E length \in TextLengths :
          pub' = [pub EXCEPT !.task[c] = Submit([@ EXCEPT !.text = length])]
    /\ UNCHANGED pipeline

(* __main__.TwitterBot.post_tweet is called: async with self._lock, then   *)
(* the request goes to the executor and the coroutine awaits it; with the  *)
(* lock held by another task the coroutine waits for it                    *)
LockedPostTweet(c) ==
    /\ pub.kind = "main"
    /\ pub.task[c].pc = "idle"
    /\ \E length \in TextLengths :
          IF pub.lock = 0
          THEN pub' = [pub EXCEPT !.lock = c,
                                  !.task[c] = Submit([@ EXCEPT !.text = length])]
          ELSE pub' = [pub EXCEPT !.task[c].pc = "wait_lock",
                                  !.task[c].text = length,
                                  !.task[c].waited = TRUE]
    /\ UNCHANGED pipeline

(* a task waiting for the lock gets it once it is released *)
LockAcquired(c) ==
    /\ pub.kind = "main"
    /\ pub.task[c].pc = "wait_lock"
    /\ pub.lock = 0
    /\ pub' = [pub EXCEPT !.lock = c, !.task[c] = Submit(@)]
    /\ UNCHANGED pipeline

(* the response arrives: 201 returns True, any other status raises; the    *)
(* lock is released on the way out of the async with                       *)
LockedResponse(c) ==
    /\ pub.kind = "main"
    /\ pub.task[c].pc = "in_flight"
    /\ \E status \in StatusCodes :
          LET t == pub.task[c]
              id == IF status = 201 THEN pub.next_id ELSE NoId
              sent == [t EXCEPT !.attempt = @ + 1,
                                !.statuses = Append(@, status),
                                !.requests = Append(@, Request(t, status, id))]
          IN  pub' = [pub EXCEPT
                         !.lock = IF @ = c THEN 0 ELSE @,
                         !.next_id = IF status = 201 THEN @ + 1 ELSE @,
                         !.live = IF status = 201 THEN @ \cup {id} ELSE @,
                         !.task[c] = Return(sent, IF status = 201
                                                  THEN "true" ELSE "raised")]
    /\ UNCHANGED pipeline

InitBot ==
    /\ now = 0
    /\ ticks = 0
    /\ run = 0
    /\ history_file = AbsentFile
    /\ world = [f \in Range(feeds) |-> << >>]
    /\ creds = TRUE
    /\ rss_file = "feeds"
    /\ pc = "idle"
    /\ posted_articles = EmptyMap
    /\ selected_feeds = << >>
    /\ articles = << >>
    /\ idx = 0
    /\ attempt = 0
    /\ tweet_text = ""
    /\ status_code = 0
    /\ platform = [h \in Hashes |-> 0]
    /\ recorded = EmptyMap
    /\ crash_window = {}
    /\ pruned = {}
    /\ log = EmptyLog
    /\ hist = NoCallers
    /\ gen = NoGenerator
    /\ rss_manager = NoManager
    /\ \E kind \in { "main", "modular" } :
          pub = [ kind |-> kind, loop |-> 0, lock |-> 0, next_id |-> 1,
                  live |-> {}, task |-> [c \in Callers |-> IdleTask] ]

NextBot ==
    \/ \E c \in Callers : BotPostTweet(c)
    \/ \E c \in Callers : BotPostThread(c)
    \/ \E c \in Callers : BackoffAttempt(c)
    \/ \E c \in Callers : LockedPostTweet(c)
    \/ \E c \in Callers : LockAcquired(c)
    \/ \E c \in Callers : LockedResponse(c)

SpecBot == InitBot /\ [][NextBot]_vars

----------------------------------------------------------------------------
(* PostHistory with several callers: coroutines of one event loop call     *)
(* add_posted and cleanup_old_entries on the same object.  A coroutine     *)
(* runs until it awaits something that suspends it; hist.loop is the one   *)
(* that is running, hist.lock the holder of self._lock.                    *)

IdleCall ==
    [ pc |-> "idle",          \* idle, save, dump, done
      op |-> "",              \* add_posted or cleanup_old_entries
      hash |-> "",            \* the hash add_posted has inserted
      waited |-> FALSE ]      \* the call found the lock taken

(* what the calls of a PostHistory leave alone *)
outside == << now, ticks, run, world, creds, rss_file, pc, selected_feeds,
              articles, idx, attempt, tweet_text, status_code, platform,
              recorded, crash_window, log, pub, gen, rss_manager >>

(* add_posted is called: the assignment to the map (line 29); the call is  *)
(* then at await self._save_history()                                      *)
HistAddPosted(c) ==
    /\ hist.loop = 0
    /\ hist.task[c].pc = "idle"
    /\ \E article \in StoreArticles :
          /\ posted_articles' = add_posted(posted_articles, article, now)
          /\ hist' = [hist EXCEPT
                         !.loop = c,
                         !.task[c] = [@ EXCEPT !.pc = "save",
                                               !.op = "add_posted",
                                               !.hash = get_hash(article)]]
    /\ UNCHANGED << outside, history_file, pruned >>

(* cleanup_old_entries is called: the new map is bound (lines 33-37); the  *)
(* call is then at await self._save_history()                              *)
HistCleanup(c) ==
    /\ hist.loop = 0
    /\ hist.task[c].pc = "idle"
    /\ posted_articles' =
          cleanup_old_entries(posted_articles, history_retention_days, now)
    /\ pruned' = pruned \cup (DOMAIN posted_articles \ DOMAIN posted_articles')
    /\ hist' = [hist EXCEPT
                   !.loop = c,
                   !.task[c] = [@ EXCEPT !.pc = "save",
                                         !.op = "cleanup_old_entries"]]
    /\ UNCHANGED << outside, history_file >>

(* Variant: the lock is not taken and the file is written in an executor   *)
(* thread, which the coroutine awaits                                      *)
HistEnter_executor_no_lock(c) ==
    /\ hist.task[c].pc = "save"
    /\ hist.loop \in {0, c}
    /\ history_file' = PartialFile
    /\ hist' = [hist EXCEPT !.loop = 0, !.task[c].pc = "dump"]
    /\ UNCHANGED << outside, posted_articles, pruned >>

(* _save_history: async with self._lock, then open(history_file, 'w').     *)
(* A free lock is taken without suspending; a coroutine that finds the     *)
(* lock taken is suspended until it is released.                           *)
HistEnter(c) ==
    /\ hist.task[c].pc = "save"
    /\ \/ hist.loop = c
       \/ hist.loop = 0 /\ hist.task[c].waited /\ hist.lock = 0
    /\ IF hist.lock = 0
       THEN /\ history_file' = PartialFile
            /\ hist' = [hist EXCEPT !.loop = c, !.lock = c,
                                    !.task[c].pc = "dump"]
       ELSE /\ hist' = [hist EXCEPT !.loop = 0, !.task[c].waited = TRUE]
            /\ UNCHANGED history_file
    /\ UNCHANGED << outside, posted_articles, pruned >>

(* _save_history: json.dump of the map as it is now, close, release of the *)
(* lock; the call returns                                                  *)
HistDump(c) ==
    /\ hist.task[c].pc = "dump"
    /\ hist.loop \in {0, c}
    /\ history_file' = _save_history(posted_articles)
    /\ hist' = [hist EXCEPT !.loop = 0,
                            !.lock = IF @ = c THEN 0 ELSE @,
                            !.task[c].pc = "done"]
    /\ UNCHANGED << outside, posted_articles, pruned >>

InitHist ==
    /\ now \in {0, 24 * history_retention_days - 1}
    /\ ticks = 0
    /\ run = 0
    /\ history_file \in InitialFiles \ {PartialFile}
    /\ world \in Worlds
    /\ creds = TRUE
    /\ rss_file = "feeds"
    /\ pc = "store_new"
    /\ posted_articles = _load_history(history_file)
    /\ selected_feeds = << >>
    /\ articles = << >>
    /\ idx = 0
    /\ attempt = 0
    /\ tweet_text = ""
    /\ status_code = 0
    /\ platform = [h \in Hashes |-> 0]
    /\ recorded = EmptyMap
    /\ crash_window = {}
    /\ pruned = {}
    /\ log = EmptyLog
    /\ pub = NoPublisher
    /\ gen = NoGenerator
    /\ rss_manager = NoManager
    /\ hist = [ loop |-> 0, lock |-> 0, task |-> [c \in Callers |-> IdleCall] ]

NextHist ==
    \/ \E c \in Callers : HistAddPosted(c)
    \/ \E c \in Callers : HistCleanup(c)
    \/ \E c \in Callers : HistEnter(c)
    \/ \E c \in Callers : HistDump(c)

SpecHist == InitHist /\ [][NextHist]_vars

----------------------------------------------------------------------------
(* RSSFeedManager.get_random_feeds, called on a manager whose feed list    *)
(* _load_feeds has read from the file "rss"                                *)

MaxCalls == 2

(* the pipeline variables of a process in which main() is not running *)
NotRunning ==
    /\ now = 0
    /\ ticks = 0
    /\ run = 0
    /\ history_file = AbsentFile
    /\ world = [f \in Range(feeds) |-> << >>]
    /\ creds = TRUE
    /\ rss_file = "feeds"
    /\ pc = "idle"
    /\ posted_articles = EmptyMap
    /\ selected_feeds = << >>
    /\ articles = << >>
    /\ idx = 0
    /\ attempt = 0
    /\ tweet_text = ""
    /\ status_code = 0
    /\ platform = [h \in Hashes |-> 0]
    /\ recorded = EmptyMap
    /\ crash_window = {}
    /\ pruned = {}
    /\ log = EmptyLog

(* The lists _load_feeds may return: one entry for every line of the file  *)
(* that holds an endpoint, in file order; a line that repeats an endpoint  *)
(* gives a second entry; __main__ returns [] for a file without endpoints  *)
FeedLists ==
    { << >>, << feeds[1] >>, feeds, feeds \o << feeds[1] >> }

(* count: none, the default of src/rss_manager.py, two, and the default of *)
(* __main__                                                                *)
Counts == { 0, 1, 2, max_feeds_per_run }

Injective(p) == \A i, j \in DOMAIN p : i # j => p[i] # p[j]

(* Variant: the first k elements, in the order of the file *)
sample_prefix(population, k) == { SubSeq(population, 1, k) }

(* random.sample(population, k): k positions drawn without replacement and *)
(* the elements at them, in the order drawn                                *)
sample(population, k) ==
    { [i \in 1..k |-> population[p[i]]] :
        p \in { q \in [1..k -> 1..Len(population)] : Injective(q) } }

(* get_random_feeds(count): ValueError on an empty list, else the sample *)
GetRandomFeeds ==
    /\ Len(rss_manager.calls) < MaxCalls
    /\ \E count \in Counts :
          IF rss_manager.feeds = << >>
          THEN rss_manager' =
                  [rss_manager EXCEPT
                      !.calls = Append(@, [count |-> count, raised |-> TRUE,
                                           returned |-> << >>])]
          ELSE \E s \in sample(rss_manager.feeds,
                               Min(count, Len(rss_manager.feeds))) :
                  rss_manager' =
                     [rss_manager EXCEPT
                         !.calls = Append(@, [count |-> count,
                                              raised |-> FALSE,
                                              returned |-> s])]
    /\ UNCHANGED << durable, memory, creds, rss_file, pc, log, pub, hist, gen >>

InitFeeds ==
    /\ NotRunning
    /\ pub = NoPublisher
    /\ hist = NoCallers
    /\ gen = NoGenerator
    /\ \E fl \in FeedLists :
          rss_manager = [ feeds |-> fl,      \* self.feeds
                          loaded |-> fl,     \* what _load_feeds returned
                          calls |-> << >> ]  \* the get_random_feeds calls so far

NextFeeds == GetRandomFeeds

SpecFeeds == InitFeeds /\ [][NextFeeds]_vars

----------------------------------------------------------------------------
(* ThreadGenerator.parse_ai_response and _split_into_tweets.  A text is a  *)
(* sequence of characters.                                                 *)

MaxLen == 12

(* ThreadGenerator(max_tweet_length): small limits stand for the default   *)
MaxTweetLengths == { 9, 10 }

Whitespace == { " " }
Delimiter == << "-", "-", "-" >>
Dots == << ".", ".", "." >>

(* text[a:b] *)
Slice(text, a, b) == SubSeq(text, a + 1, Min(b, Len(text)))

(* text.rfind(ch, start, end): the highest index in [start, end) at which  *)
(* ch stands, counted from 0, or -1                                        *)
rfind(text, ch, start, end) ==
    LET hits == { i \in start .. (Min(end, Len(text)) - 1) : text[i + 1] = ch }
    IN  IF hits = {} THEN 0 - 1
        ELSE CHOOSE i \in hits : \A j \in hits : j <= i

(* text.find(sub): the lowest index at which sub starts, or -1 *)
find(text, sub) ==
    LET hits == { i \in 0 .. (Len(text) - Len(sub)) :
                    Slice(text, i, i + Len(sub)) = sub }
    IN  IF hits = {} THEN 0 - 1
        ELSE CHOOSE i \in hits : \A j \in hits : i <= j

RECURSIVE lstrip(_)
lstrip(text) ==
    IF text = << >> \/ Head(text) \notin Whitespace THEN text
    ELSE lstrip(Tail(text))

RECURSIVE rstrip(_)
rstrip(text) ==
    IF text = << >> \/ text[Len(text)] \notin Whitespace THEN text
    ELSE rstrip(SubSeq(text, 1, Len(text) - 1))

(* text.strip() *)
strip(text) == rstrip(lstrip(text))

(* text.split(sep): the pieces between the occurrences of sep, found from  *)
(* the left                                                                *)
RECURSIVE split(_, _)
split(text, sep) ==
    LET i == find(text, sep)
    IN  IF i = 0 - 1 THEN << text >>
        ELSE << Slice(text, 0, i) >>
                \o split(Slice(text, i + Len(sep), Len(text)), sep)

(* sep.join(pieces) *)
RECURSIVE join(_, _)
join(pieces, sep) ==
    IF Len(pieces) = 0 THEN << >>
    ELSE IF Len(pieces) = 1 THEN pieces[1]
    ELSE pieces[1] \o sep \o join(Tail(pieces), sep)

(* [t.strip() for t in ai_response.split('---') if t.strip()] *)
tweet_texts_of(ai_response) ==
    LET pieces == split(ai_response, Delimiter)
        kept == SelectSeq(pieces, LAMBDA t : strip(t) # << >>)
    IN  [n \in DOMAIN kept |-> strip(kept[n])]

(* Variant: the cut is made 6 characters before the limit *)
split_point_short(text, max_tweet_length) ==
    LET found == rfind(text, " ", 0, max_tweet_length - 6)
    IN  IF found = 0 - 1 THEN max_tweet_length - 6 ELSE found

(* Variant: the cut is made at the limit *)
split_point_at_limit(text, max_tweet_length) ==
    LET found == rfind(text, " ", 0, max_tweet_length)
    IN  IF found = 0 - 1 THEN max_tweet_length ELSE found

(* _split_into_tweets: the last space before max_tweet_length - 5, or      *)
(* max_tweet_length - 5 where there is none                                *)
split_point(text, max_tweet_length) ==
    LET found == rfind(text, " ", 0, max_tweet_length - 5)
    IN  IF found = 0 - 1 THEN max_tweet_length - 5 ELSE found

(* ThreadPart(text = p), with the segment it was made from *)
ThreadPart(p, k) == [text |-> p, segment |-> k]

(* the letters a response is written with: no two places of a response    *)
(* carry the same letter                                                   *)
Letter ==
    << "a", "b", "c", "d", "e", "f", "g", "h", "i", "j", "k", "l", "m",
       "n", "o", "p" >>

(* a segment of n places with spaces at the places of `spaces` *)
Body(n, spaces) ==
    [i \in 1..n |-> IF i \in spaces THEN " " ELSE Letter[i]]

Bodies ==
    { Body(n, spaces) :
        n \in 0 .. MaxLen,
        spaces \in { sp \in SUBSET (1 .. MaxLen) : Cardinality(sp) <= 2 } }

(* The segments the model writes into its response: the body alone, after  *)
(* a short segment, between an empty and a padded one, and between two     *)
(* empty ones                                                              *)
Responses ==
    { << b >> : b \in Bodies }
      \cup { << << "A", "B" >>, b >> : b \in Bodies }
      \cup { << << " " >>, b, << " ", "Y", " " >> >> : b \in Bodies }
      \cup { << << >>, b, << >> >> : b \in Bodies }

(* parse_ai_response: line 86 *)
ParseResponse ==
    /\ gen.pc = "parse"
    /\ gen' = [gen EXCEPT !.tweet_texts = tweet_texts_of(gen.ai_response),
                          !.k = 1,
                          !.pc = "for"]
    /\ UNCHANGED << durable, memory, creds, rss_file, pc, log, pub, hist,
                    rss_manager >>

(* parse_ai_response: one turn of the for-loop up to the call of           *)
(* _split_into_tweets, and the return after the last turn                  *)
ForSegment ==
    /\ gen.pc = "for"
    /\ IF gen.k > Len(gen.tweet_texts)
       THEN gen' = [gen EXCEPT !.pc = "done"]
       ELSE LET text == gen.tweet_texts[gen.k]
            IN  IF Len(text) > gen.max_tweet_length
                THEN gen' = [gen EXCEPT !.text = text, !.tweets = << >>,
                                        !.pc = "while"]
                ELSE gen' = [gen EXCEPT
                               !.thread_parts =
                                   Append(@, ThreadPart(text, gen.k)),
                               !.k = @ + 1]
    /\ UNCHANGED << durable, memory, creds, rss_file, pc, log, pub, hist,
                    rss_manager >>

(* the return of _split_into_tweets: thread_parts.extend(...) *)
Extend(g, tweets) ==
    [g EXCEPT !.thread_parts =
                  @ \o [n \in DOMAIN tweets |-> ThreadPart(tweets[n], g.k)],
              !.tweets = tweets,
              !.k = @ + 1,
              !.pc = "for"]

(* _split_into_tweets: one turn of the while-loop *)
WhileText ==
    /\ gen.pc = "while"
    /\ IF gen.text = << >>
       THEN gen' = Extend(gen, gen.tweets)
       ELSE IF Len(gen.text) <= gen.max_tweet_length
       THEN gen' = Extend(gen, Append(gen.tweets, gen.text))
       ELSE LET at == split_point(gen.text, gen.max_tweet_length)
                rest == strip(Slice(gen.text, at, Len(gen.text)))
            IN  gen' = [gen EXCEPT
                          !.tweets = Append(@, Slice(gen.text, 0, at) \o Dots),
                          !.text = IF rest # << >> THEN Dots \o rest
                                   ELSE rest]
    /\ UNCHANGED << durable, memory, creds, rss_file, pc, log, pub, hist,
                    rss_manager >>

InitGen ==
    /\ NotRunning
    /\ pub = NoPublisher
    /\ hist = NoCallers
    /\ rss_manager = NoManager
    /\ \E limit \in MaxTweetLengths, segments \in Responses :
          gen = [ max_tweet_length |-> limit,
                  segments |-> segments,     \* what the response was written from
                  ai_response |-> join(segments, Delimiter),
                  pc |-> "parse",
                  tweet_texts |-> << >>,
                  k |-> 0,                   \* the for-loop of parse_ai_response
                  text |-> << >>,            \* the text of _split_into_tweets
                  tweets |-> << >>,
                  thread_parts |-> << >> ]

NextGen ==
    \/ ParseResponse
    \/ ForSegment
    \/ WhileText

SpecGen == InitGen /\ [][NextGen]_vars

----------------------------------------------------------------------------
(* Properties *)

Handed == { "compose", "publish", "record", "record_flush" }
Fetching == { "fetch", "examine" }
AfterCleanup == { "select", "fetch", "examine", "compose", "publish" }
hashes_of(as) == { get_hash(as[i]) : i \in DOMAIN as }

(* C1: an article is handed to the composer or to the publisher only if,   *)
(* when process_feed examined it, it was recent and its hash was in the    *)
(* history neither in memory nor on disk.                                  *)
C1_OnlyEligibleHandedOn ==
    pc \in {"compose", "publish"} =>
        /\ is_recent(current, article_freshness_hours, log.examined_at)
        /\ get_hash(current) \notin DOMAIN posted_articles
        /\ get_hash(current) \notin DOMAIN _load_history(history_file)

(* The second article of a feed is at the publisher after the first, recent *)
(* but already in the history, was passed over.                            *)
C1_Witness ==
    /\ pc = "publish"
    /\ idx = 2
    /\ is_posted(posted_articles, articles[1])
    /\ is_recent(articles[1], article_freshness_hours, now)

(* An earlier run completed add_posted for h and the record was inside the *)
(* retention horizon when this run cleaned the history.                    *)
RecordedBefore(h) ==
    /\ h \in DOMAIN recorded
    /\ recorded[h].run < run
    /\ log.cleaned_at - recorded[h].at < timedelta_days(history_retention_days)

(* An article of the fetched feed that is not eligible at any time of this *)
(* run for a reason other than RecordedBefore.                             *)
NeverEligible(article) ==
    \/ ~ is_recent(article, article_freshness_hours, log.cleaned_at)
    \/ get_hash(article) \in DOMAIN log.base

(* C2: a run never composes or publishes an article that an earlier run    *)
(* published and recorded, while the record is inside the retention        *)
(* horizon; and when the feed holds such an article and nothing else that  *)
(* is eligible, the run makes no publish call and ends in DONE-EXHAUSTED.  *)
C2_RecordedNotRepeated ==
    /\ \A h \in Hashes :
          (pc \in Handed \cup {"done_success", "done_exhausted"}
              /\ RecordedBefore(h))
          => (h \notin log.composed /\ h \notin log.published)
    /\ ( /\ pc \in {"done_success", "done_exhausted"}
         /\ \E i \in DOMAIN articles : RecordedBefore(get_hash(articles[i]))
         /\ \A i \in DOMAIN articles :
               \/ RecordedBefore(get_hash(articles[i]))
               \/ NeverEligible(articles[i]) )
       => (pc = "done_exhausted" /\ log.posts = 0)

(* The second run ends exhausted on the feed whose first article the first  *)
(* run published and recorded.                                             *)
C2_Witness ==
    /\ run = 2
    /\ pc = "done_exhausted"
    /\ log.error = ""
    /\ articles # << >>
    /\ get_hash(articles[1]) \in DOMAIN recorded
    /\ recorded[get_hash(articles[1])].run = 1
    /\ RecordedBefore(get_hash(articles[1]))
    /\ is_recent(articles[1], article_freshness_hours, now)
    /\ \A i \in DOMAIN articles :
          \/ RecordedBefore(get_hash(articles[i]))
          \/ NeverEligible(articles[i])

(* C3: a run publishes at most one article, makes no fetch, compose or     *)
(* publish call after its successful post, and does not end exhausted.     *)
C3_OneSuccessEndsRun ==
    /\ log.after_success = 0
    /\ Cardinality(log.published) <= 1
    /\ log.published # {} =>
          pc \in {"record", "record_flush", "done_success"}

(* A run has ended in DONE-SUCCESS with the second article of the feed not *)
(* examined although it is eligible.                                       *)
C3_Witness ==
    /\ pc = "done_success"
    /\ idx = 1
    /\ Len(articles) = 2
    /\ is_recent(articles[2], article_freshness_hours, now)
    /\ ~ is_posted(posted_articles, articles[2])

(* C4: the history gains a hash only after the platform accepted the post  *)
(* of that article in the same run; a run without a successful post, also  *)
(* after a rejected post, leaves the history in memory and on disk as      *)
(* cleanup_old_entries left it.                                            *)
C4_RecordOnlyAfterSuccess ==
    /\ pc \in {"record_flush", "done_success"} =>
          /\ status_code = 201
          /\ get_hash(current) \in log.published
    /\ pc \in AfterCleanup \cup Handed \cup {"done_success", "done_exhausted"} =>
          /\ \A h \in DOMAIN posted_articles :
                h \in DOMAIN log.base \/ h \in log.published
          /\ log.published = {} =>
                /\ posted_articles = log.base
                /\ history_file = _save_history(log.base)

(* The platform rejected the post of an eligible article and the run ended. *)
C4_Witness ==
    /\ pc = "done_exhausted"
    /\ log.posts = 1
    /\ status_code \in {429, 403}
    /\ ~ is_posted(posted_articles, current)

(* C5: once add_posted has completed, a history loaded from the file has   *)
(* the hash: at the end of the run, and in the process the next run starts. *)
C5_RecordedSurvivesRestart ==
    /\ pc = "done_success" =>
          is_posted(_load_history(history_file), current)
    /\ pc = "cleanup" =>
          \A h \in DOMAIN recorded :
              recorded[h].run = run - 1 => h \in DOMAIN posted_articles

(* The process of the next run has loaded the record of the run before it, *)
(* beside an older one.                                                    *)
C5_Witness ==
    /\ pc = "cleanup"
    /\ run >= 2
    /\ \E h \in DOMAIN recorded :
          /\ recorded[h].run = run - 1
          /\ h \in DOMAIN posted_articles
          /\ DOMAIN posted_articles # {h}

(* C6: whenever cleanup_old_entries or add_posted has completed, the file  *)
(* holds the map that is in memory.                                        *)
C6_FileEqualsMemory ==
    pc \in AfterCleanup \cup {"done_success", "done_exhausted", "store"} =>
        /\ history_file.kind = "json"
        /\ DOMAIN history_file.map = DOMAIN posted_articles
        /\ _load_history(history_file) = posted_articles

(* The entry the file first held has been pruned, after two entries were   *)
(* added at different times.                                               *)
C6_Witness ==
    /\ pc = "store"
    /\ EarlierPost \notin DOMAIN posted_articles
    /\ \E h, k \in DOMAIN posted_articles :
          posted_articles[h] < posted_articles[k]

(* In main(): a run that pruned an entry has then added one. *)
C6_WitnessRun ==
    /\ pc = "done_success"
    /\ DOMAIN posted_articles # {}
    /\ pruned # {}
    /\ DOMAIN log.base # DOMAIN posted_articles

(* C7: an article is accepted by the platform a second time only if a run  *)
(* crashed between its successful post and the completion of add_posted    *)
(* (the entry lost), or its entry left the history by retention; a crash   *)
(* at any other step, in the middle of a flush too, does not lead there.   *)
C7_OnlyWindowCrashRepeats ==
    \A h \in Hashes :
        platform[h] >= 2 => (h \in crash_window \/ h \in pruned)

(* An article is on the platform twice after a crash in the window, its    *)
(* entry never pruned.                                                     *)
C7_Witness ==
    \E h \in Hashes :
        /\ platform[h] = 2
        /\ h \in crash_window
        /\ h \notin pruned

LaterEligible ==
    { j \in DOMAIN articles : j > idx /\ Eligible(articles[j], now) }

(* C9: when the platform does not accept the post of an eligible article,  *)
(* process_feed goes on with the next eligible article of the feed; the    *)
(* feed is not left while eligible articles remain.                        *)
C9_PublishFailureTriesNext ==
    ( /\ pc = "done_exhausted"
      /\ idx \in DOMAIN articles
      /\ status_code \notin {0, 201} )
    => LaterEligible = {}

(* C10: when the composer yields nothing for an eligible article, by an    *)
(* empty result or by the language-model call failing after its retries,   *)
(* the failure stays inside the composer and process_feed goes on with the *)
(* next eligible article: the loop does not end at that article while a    *)
(* later one is eligible.                                                  *)
C10_ComposeFailureTriesNext ==
    ( /\ pc = "done_exhausted"
      /\ idx \in DOMAIN articles
      /\ get_hash(current) \in log.composed
      /\ log.posts = 0 )
    => LaterEligible = {}

----------------------------------------------------------------------------
----------------------------------------------------------------------------
(* the startup of the current run fails or has failed *)
StartupFails == ~ creds \/ rss_file # "feeds" \/ pc = "aborted"

(* C12: a run whose startup fails (a credential is missing, the file "rss" *)
(* is missing or holds no endpoint, the history file is not JSON) makes no *)
(* request: no fetch, no call of the model, no post.                       *)
C12_StartupFailureNoNetwork ==
    StartupFails => ~ log.net /\ log.posts = 0 /\ log.composed = {}

(* a run found a file "rss" without an endpoint: it has pruned and written *)
(* the history and then stopped at get_random_feeds                        *)
C12_Witness ==
    /\ pc = "aborted"
    /\ creds
    /\ rss_file = "empty"
    /\ log.cleanups = 1
    /\ ~ log.net

----------------------------------------------------------------------------
(* C13: cleanup_old_entries(days = d) run at time now keeps all and only   *)
(* the entries with now - t < d: an entry aged exactly d is removed, a     *)
(* kept entry keeps its timestamp, nothing is added.                       *)
C13_RetentionExact ==
    [][ StoreCleanup =>
          /\ DOMAIN posted_articles' =
                { k \in DOMAIN posted_articles :
                    now - posted_articles[k] < 24 * history_retention_days }
          /\ \A k \in DOMAIN posted_articles' :
                posted_articles'[k] = posted_articles[k] ]_vars

(* cleanup has just removed an entry recorded exactly 30 days ago and kept *)
(* one recorded an hour later                                              *)
C13_Witness ==
    /\ pc = "store"
    /\ log.cleaned_at = now
    /\ \E h \in pruned \ DOMAIN posted_articles :
          /\ h \in DOMAIN recorded
          /\ now - recorded[h].at = 24 * history_retention_days
    /\ \E k \in DOMAIN posted_articles :
          now - posted_articles[k] = 24 * history_retention_days - 1

----------------------------------------------------------------------------
(* C14: is_recent(hours = h) is true iff now - published < h.  Whenever    *)
(* process_feed examines an article, it hands it on only if the article is *)
(* younger than article_freshness_hours, and it hands on every such        *)
(* article that is not in the history; an article aged exactly h is passed *)
(* over.                                                                   *)
C14_FreshnessBoundary ==
    [][ (pc = "examine" /\ idx \in DOMAIN articles /\ pc' # "crashed") =>
          LET age == now - current.published_date
          IN  /\ pc' = "compose" => age < article_freshness_hours
              /\ age = article_freshness_hours => pc' = "examine"
              /\ (age < article_freshness_hours
                     /\ get_hash(current) \notin DOMAIN posted_articles)
                  => pc' = "compose" ]_vars

(* the loop has passed over an unposted article published exactly 24 hours *)
(* before it was examined                                                  *)
C14_Witness ==
    /\ pc = "examine"
    /\ \E i \in DOMAIN articles :
          /\ i < idx
          /\ now - articles[i].published_date = article_freshness_hours
          /\ get_hash(articles[i]) \notin DOMAIN posted_articles
          /\ get_hash(articles[i]) \notin log.composed

----------------------------------------------------------------------------
(* positions from the draw of the endpoint to the end of the run *)
Selecting == { "select", "fetch", "examine", "compose", "publish", "record",
               "record_flush", "done_success", "done_exhausted" }

(* C15: in a run past startup cleanup_old_entries has run exactly once and *)
(* has written the file to its end before the endpoint is drawn and before *)
(* any article is looked up in the history; after the draw nothing is      *)
(* pruned any more.                                                        *)
C15_CleanupOnceBeforeSelection ==
    /\ log.cleanups <= 1
    /\ log.flushes <= log.cleanups
    /\ (pc \in Selecting \/ selected_feeds # << >> \/ log.composed # {})
          => log.cleanups = 1 /\ log.flushes = 1
    /\ pc \in Selecting \ {"select"}
          => DOMAIN log.base \subseteq DOMAIN posted_articles

(* a run is examining articles after its one cleanup has pruned the entry  *)
(* of an earlier run and written the file                                  *)
C15_Witness ==
    /\ pc = "examine"
    /\ log.cleanups = 1
    /\ log.flushes = 1
    /\ EarlierPost \in pruned
    /\ EarlierPost \notin DOMAIN posted_articles
    /\ history_file = _save_history(posted_articles)

----------------------------------------------------------------------------
RECURSIVE Pow2(_)
Pow2(k) == IF k = 0 THEN 1 ELSE 2 * Pow2(k - 1)

OnlyRateLimited(t) == \A i \in DOMAIN t.statuses : t.statuses[i] = 429

(* C16: while the platform answers every attempt for a unit with 429, the  *)
(* Publisher has slept after each attempt, the delay after attempt k       *)
(* (k = 0, 1, ...) being 10 * 2^k; it stops after exactly max_retries      *)
(* attempts and reports failure.                                           *)
C16_BackoffDoubles ==
    \A c \in Callers :
        LET t == pub.task[c]
        IN  (pub.kind = "modular" /\ t.parts >= 1 /\ OnlyRateLimited(t)) =>
              /\ Len(t.delays) = Len(t.statuses)
              /\ \A i \in DOMAIN t.delays : t.delays[i] = 10 * Pow2(i - 1)
              /\ Len(t.statuses) <= backoff_max_retries
              /\ t.pc = "done" <=> Len(t.statuses) = backoff_max_retries
              /\ t.pc = "done" => t.result = "false"

(* a call has ended in failure after five attempts answered 429 and delays *)
(* of 10, 20, 40, 80 and 160                                               *)
C16_Witness ==
    \E c \in Callers :
        /\ pub.kind = "modular"
        /\ pub.task[c].pc = "done"
        /\ pub.task[c].result = "false"
        /\ pub.task[c].statuses = << 429, 429, 429, 429, 429 >>
        /\ pub.task[c].delays = << 10, 20, 40, 80, 160 >>

----------------------------------------------------------------------------
(* C17: a response that is neither 201 nor 429 is the last one of its unit *)
(* of text: no further attempt is made and the call reports failure,       *)
(* however many 429 responses came before it.                              *)
C17_OtherStatusEndsUnit ==
    \A c \in Callers :
        LET t == pub.task[c]
        IN  \A i \in DOMAIN t.statuses :
                t.statuses[i] \notin {201, 429} =>
                  /\ i = Len(t.statuses)
                  /\ Len(t.requests) = i
                  /\ t.pc = "done"
                  /\ t.result \in {"false", "raised"}

(* a call has ended in failure on a 403 that followed two 429 responses *)
C17_Witness ==
    \E c \in Callers :
        /\ pub.task[c].statuses = << 429, 429, 403 >>
        /\ pub.task[c].delays = << 10, 20 >>
        /\ Len(pub.task[c].requests) = 3
        /\ pub.task[c].pc = "done"
        /\ pub.task[c].result = "false"

----------------------------------------------------------------------------
(* the requests of a thread follow the order of its units: each request is *)
(* for the unit of the request before it, or for the next unit if that one *)
(* was created; the first unit carries no reply reference, a later unit    *)
(* the identifier the platform returned for the unit before it             *)
ThreadOrdered(t) ==
    \A i \in DOMAIN t.requests :
        LET r == t.requests[i]
        IN  /\ r.part \in 1 .. t.parts
            /\ i = 1 => r.part = 1
            /\ i > 1 => r.part = IF t.requests[i - 1].status = 201
                                 THEN t.requests[i - 1].part + 1
                                 ELSE t.requests[i - 1].part
            /\ r.part = 1 => r.reply = NoId
            /\ r.part > 1 =>
                  \E j \in 1 .. i - 1 :
                      /\ t.requests[j].part = r.part - 1
                      /\ t.requests[j].status = 201
                      /\ r.reply = t.requests[j].id

(* a thread whose last request was accepted has ended only after its last  *)
(* unit                                                                    *)
ThreadSubmitted(t) ==
    (t.pc = "done" /\ t.requests # << >>
       /\ t.requests[Len(t.requests)].status = 201)
    => t.requests[Len(t.requests)].part = t.parts

----------------------------------------------------------------------------
(* unit k of the call has failed: a response other than 201 and 429, or    *)
(* max_retries responses 429                                               *)
UnitFailed(t, k) ==
    \/ \E i \in DOMAIN t.requests :
          t.requests[i].part = k /\ t.requests[i].status \notin {201, 429}
    \/ Cardinality({ i \in DOMAIN t.requests :
                       t.requests[i].part = k /\ t.requests[i].status = 429 })
          = backoff_max_retries

(* C19: once a unit of a thread has failed, post_thread submits no later   *)
(* unit and reports failure; what the thread has posted stays on the       *)
(* platform.                                                               *)
C19_FailedUnitEndsThread ==
    \A c \in Callers :
        LET t == pub.task[c]
        IN  t.op = "post_thread" =>
              /\ \A k \in 1 .. t.parts :
                    UnitFailed(t, k) =>
                      /\ \A i \in DOMAIN t.requests : t.requests[i].part <= k
                      /\ t.pc = "done"
                      /\ t.result = "false"
              /\ \A i \in DOMAIN t.requests :
                    t.requests[i].status = 201 => t.requests[i].id \in pub.live

(* a thread of two units has ended in failure after five 429 responses for *)
(* its first unit, and nothing was sent for the second                     *)
C19_Witness ==
    \E c \in Callers :
        LET t == pub.task[c]
        IN  /\ t.op = "post_thread"
            /\ t.parts = 2
            /\ Len(t.requests) = backoff_max_retries
            /\ \A i \in DOMAIN t.requests :
                  t.requests[i].part = 1 /\ t.requests[i].status = 429
            /\ t.pc = "done"
            /\ t.result = "false"

----------------------------------------------------------------------------
(* a call that has begun to post and has not returned: its request is with *)
(* the platform, or it is between two attempts or between two units        *)
Unfinished(c) == pub.task[c].pc \in { "in_flight", "backoff", "delay" }

(* C20: at any time at most one caller of the Publisher has a post or a    *)
(* thread under way; no request of another caller starts before it has     *)
(* returned.                                                               *)
C20_OnePostInFlight ==
    Cardinality({ c \in Callers : Unfinished(c) }) <= 1

(* a caller that found the lock taken has its request with the platform    *)
(* after the call of another caller has returned                           *)
C20_Witness ==
    \E c, d \in Callers :
        /\ c # d
        /\ pub.kind = "main"
        /\ pub.task[c].pc = "done"
        /\ pub.task[d].waited
        /\ pub.task[d].pc = "in_flight"
        /\ pub.lock = d

----------------------------------------------------------------------------
(* the calls that have the file open for writing *)
Flushing == { c \in Callers : hist.task[c].pc = "dump" }

(* C21: the flushes of concurrent add_posted / cleanup_old_entries calls   *)
(* do not interleave: at most one call has the file open, and it holds the *)
(* lock; once every call has returned, the file holds exactly the map in   *)
(* memory, with every hash the calls have inserted.                        *)
C21_FlushesSerialized ==
    /\ Cardinality(Flushing) <= 1
    /\ \A c \in Flushing : hist.lock = c
    /\ ( /\ \A c \in Callers : hist.task[c].pc \in {"idle", "done"}
         /\ \E c \in Callers : hist.task[c].pc = "done" )
       => /\ history_file = _save_history(posted_articles)
          /\ \A c \in Callers :
                hist.task[c].op = "add_posted"
                  => hist.task[c].hash \in DOMAIN history_file.map

(* two calls have returned, an add_posted and a cleanup_old_entries that   *)
(* pruned the entry of an earlier run; the file holds the inserted hash    *)
(* and not the pruned one                                                  *)
C21_Witness ==
    \E c, d \in Callers :
        /\ hist.task[c].pc = "done" /\ hist.task[c].op = "add_posted"
        /\ hist.task[d].pc = "done" /\ hist.task[d].op = "cleanup_old_entries"
        /\ hist.task[c].hash \in DOMAIN history_file.map
        /\ EarlierPost \in pruned
        /\ EarlierPost \notin DOMAIN history_file.map
        /\ history_file = _save_history(posted_articles)

(* every request of the publisher carries a text within the limit *)
WithinLimit(t) ==
    \A i \in DOMAIN t.requests : t.requests[i].length <= bot_max_tweet_length

(* C22: every text submitted to the platform has length at most the       *)
(* platform limit: a text over the limit handed to post_tweet is truncated *)
(* before it is sent, and no unit of a thread goes out above the limit     *)
C22_SubmittedWithinLimit ==
    \A c \in Callers : WithinLimit(pub.task[c])

(* the platform answered every request of the call with 201 *)
AllAccepted(t) ==
    \A i \in DOMAIN t.requests : t.requests[i].status = 201

(* the call has sent each of its units once, in order *)
EachUnitOnce(t) ==
    /\ Len(t.requests) = t.parts
    /\ \A i \in DOMAIN t.requests : t.requests[i].part = i

(* C27: a post_thread call of n >= 1 units whose every request the        *)
(* platform accepts with 201 at the first attempt submits all n units      *)
(* exactly once and returns True                                           *)
C27_AcceptedThreadSucceeds ==
    \A c \in Callers :
        LET t == pub.task[c]
        IN  (t.op = "post_thread" /\ t.parts >= 1 /\ t.pc = "done"
               /\ AllAccepted(t))
            => (EachUnitOnce(t) /\ t.result = "true")

(* process_feed has published the article the for-loop is at *)
Published == pc \in { "record", "record_flush", "done_success" }

(* an article the for-loop passed before it came to the current one: it    *)
(* was not recent, or in the history, or the composer returned no text     *)
(* for it                                                                  *)
PassedOver(article) ==
    \/ ~ is_recent(article, article_freshness_hours, log.examined_at)
    \/ get_hash(article) \in DOMAIN posted_articles \ {get_hash(current)}
    \/ get_hash(article) \in log.composed \ log.published

(* C26: the article a run publishes is the first one in feed order that is *)
(* eligible and for which compose and publish both succeed: every article  *)
(* before it was ineligible or got no text from the composer, and no       *)
(* article after it in feed order is handed to the composer                *)
C26_FirstMatchWins ==
    Published =>
        /\ log.published = {get_hash(current)}
        /\ \A j \in 1 .. (idx - 1) : PassedOver(articles[j])
        /\ log.composed \subseteq hashes_of(SubSeq(articles, 1, idx))

(* The second article of the feed is published after the composer returned *)
(* no text for the first, which was eligible                               *)
C26_Witness ==
    /\ pc = "done_success"
    /\ idx = 2
    /\ get_hash(articles[1]) \in log.composed
    /\ is_recent(articles[1], article_freshness_hours, log.examined_at)
    /\ ~ is_posted(posted_articles, articles[1])

----------------------------------------------------------------------------
(* what the claim says of one call on the feed list fl *)
Members(call, fl) == Range(call.returned) \subseteq Range(fl)
Sized(call, fl) == Len(call.returned) = Min(call.count, Len(fl))
Selectable(call, fl) ==
    call.count >= 1 =>
        \A f \in Range(fl) :
            \E s \in sample(fl, Min(call.count, Len(fl))) : f \in Range(s)

(* the call returned a list; on an empty feed list it raises ValueError *)
Returned(call) == ~ call.raised

----------------------------------------------------------------------------
(* the keyword indicators, in lower case, and the words of a text in lower *)
(* case                                                                    *)
Indicators ==
    { << "research" >>, << "study" >>, << "analysis" >>, << "findings" >>,
      << "methodology" >>, << "results", "show" >>, << "according", "to" >> }

lower(word) ==
    CASE word = "Study" -> "study"
      [] word = "A" -> "a"
      [] OTHER -> word

Mentions(content, indicator) ==
    \E i \in 1 .. (Len(content) - Len(indicator) + 1) :
        \A k \in 1 .. Len(indicator) : lower(content[i + k - 1]) = indicator[k]

ThreadWorthy(content) ==
    \/ Len(content) > 100
    \/ \E indicator \in Indicators : Mentions(content, indicator)

(* C25: the prompt built for an eligible article is the thread prompt if   *)
(* and only if its cleaned content has more than 100 words or mentions one *)
(* of the keyword indicators, whatever the case; otherwise it is the       *)
(* prompt for a single post                                                *)
C25_ThreadPathRule ==
    pc \in { "compose", "publish" } =>
        IF ThreadWorthy(current.content)
        THEN log.messages # TweetPrompt
        ELSE log.messages = TweetPrompt

----------------------------------------------------------------------------
(* the segments of the response, trimmed, without the empty ones *)
Segments ==
    LET kept == SelectSeq(gen.segments, LAMBDA t : strip(t) # << >>)
    IN  [n \in DOMAIN kept |-> strip(kept[n])]

(* the units made from segment k, in the order of the thread *)
UnitsOf(k) ==
    LET own == SelectSeq(gen.thread_parts, LAMBDA part : part.segment = k)
    IN  [n \in DOMAIN own |-> own[n].text]

(* unit n of `units` without its continuation markers: the three           *)
(* characters at the end of every unit but the last, and at the start of   *)
(* every unit but the first                                                *)
Unmarked(units, n) ==
    Slice(units[n], IF n > 1 THEN 3 ELSE 0,
          IF n < Len(units) THEN Len(units[n]) - 3 ELSE Len(units[n]))

RECURSIVE Glued(_, _)
Glued(units, n) ==
    IF n > Len(units) THEN << >>
    ELSE Unmarked(units, n) \o Glued(units, n + 1)

Inked(text) == SelectSeq(text, LAMBDA ch : ch \notin Whitespace)

(* C23: parse_ai_response splits the response at the delimiter, trims the  *)
(* segments and drops the empty ones; a segment within the limit becomes   *)
(* one unit with the same text, a longer one at least two units; no unit   *)
(* is longer than max_tweet_length; the units follow the order of the      *)
(* segments, and their characters, markers aside, the order within each    *)
(* segment                                                                 *)
C23_ThreadSegmentation ==
    gen.pc = "done" =>
        /\ gen.tweet_texts = Segments
        /\ \A n \in DOMAIN gen.thread_parts :
              /\ Len(gen.thread_parts[n].text) <= gen.max_tweet_length
              /\ gen.thread_parts[n].segment \in DOMAIN Segments
              /\ n > 1 => gen.thread_parts[n - 1].segment
                              <= gen.thread_parts[n].segment
        /\ \A k \in DOMAIN Segments :
              IF Len(Segments[k]) <= gen.max_tweet_length
              THEN UnitsOf(k) = << Segments[k] >>
              ELSE /\ Len(UnitsOf(k)) >= 2
                   /\ Inked(Glued(UnitsOf(k), 1)) = Inked(Segments[k])

(* A response of two segments is parsed: the first became one unit, the    *)
(* second, over the limit and with a space in it, three                    *)
C23_Witness ==
    /\ gen.pc = "done"
    /\ Len(gen.tweet_texts) = 2
    /\ Len(gen.tweet_texts[2]) > gen.max_tweet_length
    /\ " " \in Range(gen.tweet_texts[2])
    /\ Len(UnitsOf(1)) = 1
    /\ Len(UnitsOf(2)) = 3

(* the characters of the segment that _split_into_tweets has not yet put   *)
(* into a chunk                                                            *)
Remaining ==
    IF gen.tweets = << >> THEN Len(gen.text)
    ELSE Len(Slice(gen.text, 3, Len(gen.text)))

(* C28: _split_into_tweets terminates on a text without leading whitespace *)
(* when max_tweet_length is above 8: every turn of the loop that does not  *)
(* return takes at least one character of the text, and the chunks are     *)
(* never more than the text has characters                                 *)
C28_SplitterTerminates ==
    /\ [](gen.pc = "while" =>
             Len(gen.tweets) <= Len(gen.tweet_texts[gen.k]))
    /\ [][(gen.pc = "while" /\ gen'.pc = "while") =>
             Remaining' < Remaining]_vars

(* The loop has returned four chunks for one segment *)
C28_Witness ==
    /\ gen.pc = "for"
    /\ gen.k > 1
    /\ Len(gen.tweets) = 4
    /\ Len(gen.tweet_texts[gen.k - 1]) > gen.max_tweet_length

====
